---- MODULE Spec2Model ----
(***************************************************************************)
(* Two-Player Auction Learner (src/algnet.py).                             *)
(*                                                                         *)
(* Three specifications share this module:                                 *)
(*   SpecTrain : the training loop of training() (lines 428-459) over the  *)
(*               TPALState it threads through reinit_misr / update_misr /  *)
(*               update_auct.                                              *)
(*   SpecFn    : the array helpers permute_along_bidders and               *)
(*               TPAL.misr_bidder_i applied to the per-sample              *)
(*               bidders x items matrices the vmapped losses hand them.    *)
(*   SpecAuct  : the allocation half of Auctioneer.__call__.               *)
(*                                                                         *)
(* Arrays are sequences (1-based); the index i of the code stays 0-based   *)
(* and the slicing operators below translate.                              *)
(***************************************************************************)
EXTENDS Integers, Sequences, FiniteSets, TLC

VARIABLES
    \* ---- training() ----
    pc,               \* position in training(): loop / reinit / misr / log / done / raised
    num_steps,        \* argument of training()
    misr_updates,     \* argument of training()
    misr_reinit_iv,   \* argument of training()
    misr_reinit_lim,  \* argument of training()
    step,             \* loop variable of `for step in range(num_steps)`
    it_misr,          \* iterations done of `for _ in range(0, misr_updates)`
    tpal_state,       \* the TPALState threaded through the loop
    misr_log,         \* local misr_log: "unbound" until update_misr has returned once
    steps,            \* local list `steps` of logged steps
    \* ---- history of the calls made by training() ----
    n_update_auct,    \* update_auct calls so far
    n_update_misr,    \* update_misr calls so far
    it_auct,          \* update_auct calls in the current iteration
    last_misr_call,   \* what the latest update_misr call saw
    last_auct_call,   \* what the latest update_auct call saw
    reinit_calls,     \* step -> number of updates made before reinit_misr was called there
    \* ---- array helpers and Auctioneer ----
    fn_pc,            \* which helper has been applied
    bidders,
    items,
    vals,             \* per-sample valuation matrix, bidders x items
    misrs,            \* per-sample misreport matrix, bidders x items
    permuted,         \* [permute_along_bidders(vals, i) for i in range(bidders)]
    V_minus_i,        \* [misr_bidder_i(vals, misrs, i) for i in range(bidders)]
    prob_logits,      \* output of alloc_prob, one per item
    which_logits,     \* stacked outputs of alloc_which, bidders x items
    alloc             \* allocation matrix returned by Auctioneer.__call__

train_vars == <<pc, num_steps, misr_updates, misr_reinit_iv, misr_reinit_lim,
                step, it_misr, tpal_state, misr_log, steps,
                n_update_auct, n_update_misr, it_auct,
                last_misr_call, last_auct_call, reinit_calls>>

fn_vars == <<fn_pc, bidders, items, vals, misrs, permuted, V_minus_i,
             prob_logits, which_logits, alloc>>

vars == <<train_vars, fn_vars>>

----------------------------------------------------------------------------
(* Bounds *)

MaxNumSteps == 102
MaxMisrUpdates == 2
MaxReinitIv == 3
MaxReinitLim == 4
MaxBidders == 2
MaxItems == 2

----------------------------------------------------------------------------
(* training(): the TPALState and the operations on it *)

\* Parameters are abstracted to their provenance.  params.auct is the number
\* of update_auct applications on top of the initial Auctioneer parameters;
\* params.misr names the initialisation the Misreporter parameters come from
\* and the number of update_misr applications since.  The optimizer states
\* follow the parameters (adamw keeps an update count).
initial_state ==
    [params    |-> [auct |-> 0, misr |-> [init |-> "initial_state", n |-> 0]],
     opt_state |-> [auct |-> 0, misr |-> [init |-> "initial_state", n |-> 0]]]

reinit_misr(st) ==
    [params    |-> [auct |-> st.params.auct,
                    misr |-> [init |-> "reinit_misr", n |-> 0]],
     opt_state |-> [auct |-> st.opt_state.auct,
                    misr |-> [init |-> "reinit_misr", n |-> 0]]]

update_auct(st) ==
    [params    |-> [auct |-> st.params.auct + 1, misr |-> st.params.misr],
     opt_state |-> [auct |-> st.opt_state.auct + 1, misr |-> st.opt_state.misr]]

update_misr(st) ==
    [params    |-> [misr |-> [st.params.misr EXCEPT !.n = @ + 1],
                    auct |-> st.params.auct],
     opt_state |-> [misr |-> [st.opt_state.misr EXCEPT !.n = @ + 1],
                    auct |-> st.opt_state.auct]]

\* log_every = num_steps // 100
log_every(n) == n \div 100

\* ((step % misr_reinit_iv) == 0) and (step <= misr_reinit_lim)
ReinitDue_lt(s, iv, lim) == ((s % iv) = 0) /\ (s < lim)
ReinitDue(s, iv, lim) == ((s % iv) = 0) /\ (s <= lim)

NoCall == [step |-> -1]

FnIdle ==
    /\ fn_pc = "idle"
    /\ bidders = 0
    /\ items = 0
    /\ vals = <<>>
    /\ misrs = <<>>
    /\ permuted = <<>>
    /\ V_minus_i = <<>>
    /\ prob_logits = <<>>
    /\ which_logits = <<>>
    /\ alloc = <<>>

\* The arguments of training(): a positive reinitialisation interval and a
\* non-negative limit, as in every call of training in the source.
TrainInit ==
    /\ pc = "loop"
    /\ num_steps \in 0..MaxNumSteps
    /\ misr_updates \in 0..MaxMisrUpdates
    /\ misr_reinit_iv \in 1..MaxReinitIv
    /\ misr_reinit_lim \in 0..MaxReinitLim
    /\ step = 0
    /\ it_misr = 0
    /\ tpal_state = initial_state
    /\ misr_log = "unbound"
    /\ steps = <<>>
    /\ n_update_auct = 0
    /\ n_update_misr = 0
    /\ it_auct = 0
    /\ last_misr_call = NoCall
    /\ last_auct_call = NoCall
    /\ reinit_calls = <<>>
    /\ FnIdle

\* for step in range(num_steps): val_sample = sampler.sample(batch_size)
Sample ==
    /\ pc = "loop"
    /\ step < num_steps
    /\ pc' = "reinit"
    /\ it_misr' = 0
    /\ it_auct' = 0
    /\ UNCHANGED <<num_steps, misr_updates, misr_reinit_iv, misr_reinit_lim, step,
                   tpal_state, misr_log, steps, n_update_auct, n_update_misr,
                   last_misr_call, last_auct_call, reinit_calls>>

\* the if of line 432 taken: tpal_state = tpal.reinit_misr(...)
ReinitMisr ==
    /\ pc = "reinit"
    /\ ReinitDue(step, misr_reinit_iv, misr_reinit_lim)
    /\ tpal_state' = reinit_misr(tpal_state)
    /\ reinit_calls' = (step :> (n_update_misr + n_update_auct)) @@ reinit_calls
    /\ pc' = "misr"
    /\ UNCHANGED <<num_steps, misr_updates, misr_reinit_iv, misr_reinit_lim, step,
                   it_misr, misr_log, steps, n_update_auct, n_update_misr, it_auct,
                   last_misr_call, last_auct_call>>

\* the if of line 432 not taken
SkipReinit ==
    /\ pc = "reinit"
    /\ ~ReinitDue(step, misr_reinit_iv, misr_reinit_lim)
    /\ pc' = "misr"
    /\ UNCHANGED <<num_steps, misr_updates, misr_reinit_iv, misr_reinit_lim, step,
                   it_misr, tpal_state, misr_log, steps, n_update_auct,
                   n_update_misr, it_auct, last_misr_call, last_auct_call,
                   reinit_calls>>

\* one iteration of `for _ in range(0, misr_updates)`
UpdateMisr_extra ==
    /\ pc = "misr"
    /\ it_misr <= misr_updates
    /\ tpal_state' = update_misr(tpal_state)
    /\ misr_log' = "bound"
    /\ it_misr' = it_misr + 1
    /\ n_update_misr' = n_update_misr + 1
    /\ last_misr_call' = [step |-> step, auct |-> tpal_state.params.auct,
                          it_auct |-> it_auct]
    /\ UNCHANGED <<pc, num_steps, misr_updates, misr_reinit_iv, misr_reinit_lim,
                   step, steps, n_update_auct, it_auct, last_auct_call,
                   reinit_calls>>

UpdateMisr ==
    /\ pc = "misr"
    /\ it_misr < misr_updates
    /\ tpal_state' = update_misr(tpal_state)
    /\ misr_log' = "bound"
    /\ it_misr' = it_misr + 1
    /\ n_update_misr' = n_update_misr + 1
    /\ last_misr_call' = [step |-> step, auct |-> tpal_state.params.auct,
                          it_auct |-> it_auct]
    /\ UNCHANGED <<pc, num_steps, misr_updates, misr_reinit_iv, misr_reinit_lim,
                   step, steps, n_update_auct, it_auct, last_auct_call,
                   reinit_calls>>

\* the inner loop is exhausted: tpal_state, auct_log = tpal.update_auct(...)
UpdateAuct ==
    /\ pc = "misr"
    /\ it_misr >= misr_updates
    /\ tpal_state' = update_auct(tpal_state)
    /\ n_update_auct' = n_update_auct + 1
    /\ it_auct' = it_auct + 1
    /\ last_auct_call' = [step |-> step, it_misr |-> it_misr,
                          misr |-> tpal_state.params.misr]
    /\ pc' = "log"
    /\ UNCHANGED <<num_steps, misr_updates, misr_reinit_iv, misr_reinit_lim, step,
                   it_misr, misr_log, steps, n_update_misr, last_misr_call,
                   reinit_calls>>

\* `step % log_every` divides by zero when num_steps < 100, and the logging
\* branch reads misr_log, which is unbound when no update_misr has run.
LogRaises ==
    IF log_every(num_steps) = 0
    THEN TRUE
    ELSE /\ step % log_every(num_steps) = 0
         /\ misr_log = "unbound"

\* lines 443-457, then the next iteration
Log ==
    /\ pc = "log"
    /\ ~LogRaises
    /\ steps' = IF step % log_every(num_steps) = 0 THEN Append(steps, step) ELSE steps
    /\ step' = step + 1
    /\ pc' = "loop"
    /\ UNCHANGED <<num_steps, misr_updates, misr_reinit_iv, misr_reinit_lim,
                   it_misr, tpal_state, misr_log, n_update_auct, n_update_misr,
                   it_auct, last_misr_call, last_auct_call, reinit_calls>>

\* lines 443-457 raise (ZeroDivisionError / UnboundLocalError): training() ends
LogRaise ==
    /\ pc = "log"
    /\ LogRaises
    /\ pc' = "raised"
    /\ UNCHANGED <<num_steps, misr_updates, misr_reinit_iv, misr_reinit_lim, step,
                   it_misr, tpal_state, misr_log, steps, n_update_auct,
                   n_update_misr, it_auct, last_misr_call, last_auct_call,
                   reinit_calls>>

\* range(num_steps) is exhausted: return tpal, tpal_state
Return ==
    /\ pc = "loop"
    /\ step >= num_steps
    /\ pc' = "done"
    /\ UNCHANGED <<num_steps, misr_updates, misr_reinit_iv, misr_reinit_lim, step,
                   it_misr, tpal_state, misr_log, steps, n_update_auct,
                   n_update_misr, it_auct, last_misr_call, last_auct_call,
                   reinit_calls>>

NextTrain ==
    \/ (Sample /\ UNCHANGED fn_vars)
    \/ (ReinitMisr /\ UNCHANGED fn_vars)
    \/ (SkipReinit /\ UNCHANGED fn_vars)
    \/ (UpdateMisr /\ UNCHANGED fn_vars)
    \/ (UpdateAuct /\ UNCHANGED fn_vars)
    \/ (Log /\ UNCHANGED fn_vars)
    \/ (LogRaise /\ UNCHANGED fn_vars)
    \/ (Return /\ UNCHANGED fn_vars)

SpecTrain == TrainInit /\ [][NextTrain]_vars

----------------------------------------------------------------------------
(* Array helpers: permute_along_bidders and TPAL.misr_bidder_i *)

\* Valuations and misreports lie in [0, 1]; two levels tell rows and columns apart.
Levels == {0, 1}

Min(a, b) == IF a < b THEN a ELSE b

\* s[lo:hi] of Python for 0 <= lo, 0 <= hi: out-of-range bounds are clipped
PySlice(s, lo, hi) == SubSeq(s, Min(lo, Len(s)) + 1, Min(hi, Len(s)))

\* s[lo:]
PySliceFrom(s, lo) == SubSeq(s, Min(lo, Len(s)) + 1, Len(s))

\* B[:, lo:hi] : the slice is taken along axis 1 of B
Axis1Slice(B, lo, hi) == [r \in 1..Len(B) |-> PySlice(B[r], lo, hi)]

\* B[:, lo:]
Axis1SliceFrom(B, lo) == [r \in 1..Len(B) |-> PySliceFrom(B[r], lo)]

\* jnp.concatenate([X, Y, Z], axis=1)
Concatenate1(X, Y, Z) == [r \in 1..Len(X) |-> X[r] \o Y[r] \o Z[r]]

\* B.shape of a two-dimensional array
Shape(B) == <<Len(B), IF Len(B) = 0 THEN 0 ELSE Len(B[1])>>

permute_along_bidders(B, i) ==
    LET head == Axis1Slice(B, 0, i)
        tail == Axis1SliceFrom(B, i + 1)
        b_i  == Axis1Slice(B, i, i + 1)
    IN  Concatenate1(b_i, head, tail)

misr_bidder_i(v, m, i) ==
    LET head == Axis1Slice(v, 0, i)
        tail == Axis1SliceFrom(v, i + 1)
        m_i  == Axis1Slice(m, i, i + 1)
    IN  Concatenate1(head, m_i, tail)

\* the bidders x items arrays a vmapped loss receives for one sample
Matrices(b, n) == [1..b -> [1..n -> Levels]]

TrainIdle ==
    /\ pc = "idle"
    /\ num_steps = 0
    /\ misr_updates = 0
    /\ misr_reinit_iv = 1
    /\ misr_reinit_lim = 0
    /\ step = 0
    /\ it_misr = 0
    /\ tpal_state = initial_state
    /\ misr_log = "unbound"
    /\ steps = <<>>
    /\ n_update_auct = 0
    /\ n_update_misr = 0
    /\ it_auct = 0
    /\ last_misr_call = NoCall
    /\ last_auct_call = NoCall
    /\ reinit_calls = <<>>

FnInit ==
    /\ fn_pc = "input"
    /\ bidders \in 1..MaxBidders
    /\ items \in 1..MaxItems
    /\ vals \in Matrices(bidders, items)
    /\ misrs \in Matrices(bidders, items)
    /\ permuted = <<>>
    /\ V_minus_i = <<>>
    /\ prob_logits = <<>>
    /\ which_logits = <<>>
    /\ alloc = <<>>
    /\ TrainIdle

\* Auctioneer.__call__ / Misreporter.__call__ on one sample: the network
\* inputs permute_along_bidders(vals, i) for i in range(self.bidders)
PermuteInputs ==
    /\ permuted = <<>>
    /\ permuted' = [k \in 1..bidders |-> permute_along_bidders(vals, k - 1)]
    /\ fn_pc' = "called"
    /\ UNCHANGED <<bidders, items, vals, misrs, V_minus_i, prob_logits,
                   which_logits, alloc>>

\* misr_utility on one sample: misr_i = self.misr_bidder_i(val_sample,
\* misreports, i) for i in range(0, self.bidders)
MisrUtility ==
    /\ V_minus_i = <<>>
    /\ V_minus_i' = [k \in 1..bidders |-> misr_bidder_i(vals, misrs, k - 1)]
    /\ fn_pc' = "called"
    /\ UNCHANGED <<bidders, items, vals, misrs, permuted, prob_logits,
                   which_logits, alloc>>

NextFn ==
    \/ (PermuteInputs /\ UNCHANGED train_vars)
    \/ (MisrUtility /\ UNCHANGED train_vars)

SpecFn == FnInit /\ [][NextFn]_vars

----------------------------------------------------------------------------
(* Auctioneer.__call__: the allocation matrix *)

\* The MLP outputs are free (they depend on the parameters).  One logit unit
\* is ln 2, so that exp is an exact power of two; Exp(x) is 2 * exp(x).
Logits == {-1, 0, 1}

Exp(x) == 2 ^ (x + 1)

\* nn.sigmoid(x) = exp(x) / (1 + exp(x)), as a fraction
sigmoid(x) == [num |-> Exp(x), den |-> Exp(0) + Exp(x)]

RECURSIVE SumExp(_, _)
SumExp(xs, n) == IF n = 0 THEN 0 ELSE Exp(xs[n]) + SumExp(xs, n - 1)

\* nn.softmax(L, axis=1): every row is normalised over its items
softmax_axis1(L) ==
    [r \in 1..Len(L) |->
        [c \in 1..Len(L[r]) |->
            [num |-> Exp(L[r][c]), den |-> SumExp(L[r], Len(L[r]))]]]

\* nn.softmax(L, axis=0): every column is normalised over the bidders
softmax_axis0(L) ==
    [r \in 1..Len(L) |->
        [c \in 1..Len(L[r]) |->
            [num |-> Exp(L[r][c]),
             den |-> SumExp([k \in 1..Len(L) |-> L[k][c]], Len(L))]]]

\* alloc * L : the (items,) vector broadcast over the rows of L
BroadcastMul(a, L) ==
    [r \in 1..Len(L) |->
        [c \in 1..Len(L[r]) |->
            [num |-> a[c].num * L[r][c].num, den |-> a[c].den * L[r][c].den]]]

\* lines 92-112, given the outputs of alloc_prob and alloc_which
Allocation(p, w) ==
    LET a == [c \in 1..Len(p) |-> sigmoid(p[c])]
        L == softmax_axis0(w)
    IN  BroadcastMul(a, L)

\* alloc depends on vals only through the MLP outputs, and those range over
\* all of Logits in AuctioneerCall whatever vals is; vals is held at zero.
AuctInit ==
    /\ fn_pc = "input"
    /\ bidders \in 1..MaxBidders
    /\ items \in 1..MaxItems
    /\ vals = [r \in 1..bidders |-> [c \in 1..items |-> 0]]
    /\ misrs = <<>>
    /\ permuted = <<>>
    /\ V_minus_i = <<>>
    /\ prob_logits = <<>>
    /\ which_logits = <<>>
    /\ alloc = <<>>
    /\ TrainIdle

\* Auctioneer.__call__(vals), allocation part
AuctioneerCall ==
    /\ fn_pc = "input"
    /\ \E p \in [1..items -> Logits], w \in [1..bidders -> [1..items -> Logits]] :
          /\ prob_logits' = p
          /\ which_logits' = w
          /\ alloc' = Allocation(p, w)
    /\ fn_pc' = "called"
    /\ UNCHANGED <<bidders, items, vals, misrs, permuted, V_minus_i>>

NextAuct ==
    \/ (AuctioneerCall /\ UNCHANGED train_vars)

SpecAuct == AuctInit /\ [][NextAuct]_vars

----------------------------------------------------------------------------
(* Properties *)

\* fractions
FracSum(p, q) == [num |-> p.num * q.den + q.num * p.den, den |-> p.den * q.den]

RECURSIVE ColumnSum(_, _, _)
ColumnSum(A, c, n) ==
    IF n = 0 THEN [num |-> 0, den |-> 1]
    ELSE FracSum(A[n][c], ColumnSum(A, c, n - 1))

\* C1: the allocation matrix returned by Auctioneer.__call__ is feasible:
\* it has shape (bidders, items), every entry lies in [0, 1], and for every
\* item the entries of all bidders sum to at most 1.
C1_Feasible ==
    fn_pc = "called" =>
        /\ Shape(alloc) = <<bidders, items>>
        /\ \A r \in 1..bidders, c \in 1..items :
              /\ alloc[r][c].den > 0
              /\ 0 <= alloc[r][c].num
              /\ alloc[r][c].num <= alloc[r][c].den
        /\ \A c \in 1..items :
              ColumnSum(alloc, c, bidders).num <= ColumnSum(alloc, c, bidders).den

\* Two bidders who both prefer item 0, offered with probability above 1/2.
C1_Witness ==
    /\ fn_pc = "called"
    /\ bidders = 2
    /\ items = 2
    /\ prob_logits = <<1, 1>>
    /\ which_logits = <<(<<1, -1>>), (<<1, -1>>)>>
    /\ alloc[1][1] = [num |-> 16, den |-> 48]

\* the bidder rows of B reordered as [b_i, b_0, ..., b_(i-1), b_(i+1), ..., b_n]
BidderToFront(B, i) == <<B[i + 1]>> \o SubSeq(B, 1, i) \o SubSeq(B, i + 2, Len(B))

\* the bidder-i row taken from m, every other bidder row from v
RowReplaced(v, m, i) == [r \in 1..Len(v) |-> IF r = i + 1 THEN m[r] ELSE v[r]]

\* C2: for every bidder i, misr_bidder_i(vals, misrs, i) on the per-sample
\* bidders x items matrices has the shape of vals, its bidder-i row is the
\* bidder-i row of misrs and every other bidder row is the row of vals.
C2_UnilateralMisreport ==
    V_minus_i # <<>> =>
        \A k \in 1..bidders :
            /\ Shape(V_minus_i[k]) = Shape(vals)
            /\ V_minus_i[k] = RowReplaced(vals, misrs, k - 1)

\* C4: for every bidder i, permute_along_bidders(vals, i) on the per-sample
\* bidders x items matrix has the shape of vals and its bidder rows are
\* ordered [b_i, b_0, ..., b_(i-1), b_(i+1), ..., b_n].
C4_BidderMovedToFront ==
    permuted # <<>> =>
        \A k \in 1..bidders :
            /\ Shape(permuted[k]) = Shape(vals)
            /\ permuted[k] = BidderToFront(vals, k - 1)

\* C3: in every iteration all misr_updates calls of update_misr precede the
\* single update_auct; every update_misr of step s sees the Auctioneer
\* parameters after exactly s updates (those of step s-1, the initial ones
\* for s = 0); after k completed steps there have been k update_auct and
\* k * misr_updates update_misr calls.
C3_StepOrdering ==
    /\ last_misr_call.step >= 0 =>
          /\ last_misr_call.auct = last_misr_call.step
          /\ last_misr_call.it_auct = 0
    /\ last_auct_call.step >= 0 => last_auct_call.it_misr = misr_updates
    /\ it_auct <= 1
    /\ pc = "log" => it_auct = 1
    /\ pc \in {"loop", "done"} =>
          /\ n_update_auct = step
          /\ n_update_misr = step * misr_updates
    /\ pc \in {"reinit", "misr"} =>
          /\ n_update_auct = step
          /\ n_update_misr = step * misr_updates + it_misr

\* Three steps completed with two Misreporter updates each, in the fourth.
C3_Witness ==
    /\ pc = "misr"
    /\ step = 3
    /\ misr_updates = 2
    /\ it_misr = 2
    /\ n_update_misr = 8
    /\ n_update_auct = 3
    /\ last_misr_call = [step |-> 3, auct |-> 3, it_auct |-> 0]

\* step s has been through the test of line 432
PastReinitTest(s) ==
    \/ s < step
    \/ s = step /\ pc \in {"misr", "log", "raised"}

\* C5: reinit_misr is called at step s iff s is a multiple of misr_reinit_iv
\* and s <= misr_reinit_lim; so it is called at step 0 before any update and
\* never at a step above misr_reinit_lim; a call at step s comes after all
\* updates of the earlier steps and before every update of step s.
C5_ReinitSchedule ==
    /\ \A s \in 0..step :
          PastReinitTest(s) =>
              (s \in DOMAIN reinit_calls
                  <=> (s % misr_reinit_iv = 0 /\ s <= misr_reinit_lim))
    /\ \A s \in DOMAIN reinit_calls :
          /\ s <= misr_reinit_lim
          /\ s <= step
          /\ reinit_calls[s] = s * (misr_updates + 1)
    /\ PastReinitTest(0) => (0 \in DOMAIN reinit_calls /\ reinit_calls[0] = 0)
    /\ (n_update_misr > 0 \/ n_update_auct > 0) => 0 \in DOMAIN reinit_calls

\* Interval 2 and limit 4: called at steps 0, 2 and 4 (the limit itself),
\* skipped at 1, 3, 5 and at 6, a multiple of the interval above the limit.
C5_Witness ==
    /\ misr_reinit_iv = 2
    /\ misr_reinit_lim = 4
    /\ misr_updates = 1
    /\ step = 7
    /\ DOMAIN reinit_calls = {0, 2, 4}
    /\ reinit_calls[4] = 8

====
